---------------------------- MODULE Spec2Model ----------------------------
(***************************************************************************)
(* Heads-up Texas Hold'em engine of poker-core (src/poker-core/src/lib.rs) *)
(* as a state machine: the PokerGameState fields are the variables, and    *)
(* start_new_hand, perform_action and set_bet_amount are the actions.      *)
(***************************************************************************)
EXTENDS Integers, Sequences, FiniteSets, TLC

(***************************************************************************)
(* Program constants.                                                      *)
(***************************************************************************)
SMALL_BLIND_CHIPS == 10
BIG_BLIND_CHIPS == 20
INITIAL_CHIPS == 10000
MIN_CHIPS_TO_CONTINUE == 10
MIN_BET_DEFAULT == 20
MAX_BET_DEFAULT == 500
MAX_BET_MULTIPLIER == 100
CALL_AMOUNT_DEFAULT == 50
NUM_PLAYERS == 2

\* HandRank discriminants.
HighCard == 0
Pair == 1
TwoPair == 2
ThreeOfAKind == 3
Straight == 4
Flush == 5
FullHouse == 6
FourOfAKind == 7
StraightFlush == 8
RoyalFlush == 9

GameStage ==
  {"Preflop", "Flop", "Turn", "River", "Showdown", "HandComplete", "WaitingToStart"}

PlayerAction == {"Fold", "Check", "Call", "Bet", "Raise", "AllIn"}

\* The order in which Deck::new walks the suits.
Suit == <<"Spades", "Hearts", "Diamonds", "Clubs">>

(***************************************************************************)
(* Bounds of the exploration.                                              *)
(***************************************************************************)
\* Calls of start_new_hand that get past the player-count guard.
MaxHands == 2
\* Successful perform_action calls.
MaxActions == 3
\* set_bet_amount calls that store a new size.
MaxSizings == 1
\* The largest count a driver of the deck alone passes to deal.
MaxDeal == 3
\* The largest stack, bet so far and amount Player::bet is called with on its own.
MaxStack == 3
\* The longest token, in characters, handed to Card::from_string.
MaxToken == 3

(***************************************************************************)
(* Small helpers.                                                          *)
(***************************************************************************)
Min(a, b) == IF a < b THEN a ELSE b

\* u64::saturating_sub
SaturatingSub(a, b) == IF a > b THEN a - b ELSE 0

Range(seq) == {seq[i] : i \in 1..Len(seq)}

Take(seq, n) == SubSeq(seq, 1, Min(n, Len(seq)))

Repeat(x, n) == [i \in 1..n |-> x]

Occurrences(seq, x) == Cardinality({i \in 1..Len(seq) : seq[i] = x})

RECURSIVE DescFrom(_, _)
\* The values of seq that are <= r, highest first, duplicates kept.
DescFrom(seq, r) ==
  IF r < 1 THEN <<>>
  ELSE Repeat(r, Occurrences(seq, r)) \o DescFrom(seq, r - 1)

\* sort_unstable_by(|a, b| b.cmp(a)) on rank values
SortDesc(seq) == DescFrom(seq, 14)

RECURSIVE AscOf(_)
\* sort_unstable followed by dedup: the distinct values, lowest first.
AscOf(S) ==
  IF S = {} THEN <<>>
  ELSE LET m == CHOOSE x \in S : \A y \in S : x <= y
       IN <<m>> \o AscOf(S \ {m})

Reverse(seq) == [i \in 1..Len(seq) |-> seq[Len(seq) + 1 - i]]

(***************************************************************************)
(* Card and Deck.                                                          *)
(***************************************************************************)
Card(rank, suit) == [rank |-> rank, suit |-> suit]

\* Deck::new: suit-major, ranks 2..14 inside each suit.
DeckNew ==
  [i \in 1..52 |-> Card(2 + ((i - 1) % 13), Suit[((i - 1) \div 13) + 1])]

\* A permutation of the fresh deck that shows `top` first; Fisher-Yates can
\* produce every permutation, these are the ones the exploration draws.
Stacked(top) ==
  top \o SelectSeq(DeckNew, LAMBDA c : c \notin Range(top))

\* Both players play the board (a broadway straight): exact tie.
TopTie ==
  <<Card(2, "Spades"), Card(3, "Hearts"), Card(2, "Hearts"), Card(3, "Spades"),
    Card(10, "Spades"), Card(11, "Hearts"), Card(12, "Diamonds"),
    Card(13, "Clubs"), Card(14, "Spades")>>

\* Seat 0 holds aces against kings on a dry board.
TopSeat0 ==
  <<Card(14, "Spades"), Card(14, "Hearts"), Card(13, "Spades"), Card(13, "Hearts"),
    Card(2, "Clubs"), Card(7, "Diamonds"), Card(9, "Hearts"),
    Card(4, "Spades"), Card(11, "Clubs")>>

\* Seat 1 holds aces against kings on a dry board.
TopSeat1 ==
  <<Card(13, "Spades"), Card(13, "Hearts"), Card(14, "Spades"), Card(14, "Hearts"),
    Card(2, "Clubs"), Card(7, "Diamonds"), Card(9, "Hearts"),
    Card(4, "Spades"), Card(11, "Clubs")>>

\* Deck::shuffle: the orders the exploration lets the generator produce.
Shuffle == {Stacked(TopTie), Stacked(TopSeat0), Stacked(TopSeat1)}

\* deal draining the cards from the back of the vector.
DealFromBack(cards, count) ==
  IF count > Len(cards)
  THEN [ok |-> FALSE, dealt |-> <<>>, cards |-> cards]
  ELSE [ok |-> TRUE, dealt |-> SubSeq(cards, Len(cards) - count + 1, Len(cards)),
        cards |-> SubSeq(cards, 1, Len(cards) - count)]

\* Deck::deal: None (ok = FALSE, nothing removed) when count exceeds the deck.
Deal(cards, count) ==
  IF count > Len(cards)
  THEN [ok |-> FALSE, dealt |-> <<>>, cards |-> cards]
  ELSE [ok |-> TRUE, dealt |-> SubSeq(cards, 1, count),
        cards |-> SubSeq(cards, count + 1, Len(cards))]

\* Deck::burn: Vec::pop, the last card; nothing happens on an empty deck.
Burn(cards) ==
  IF Len(cards) = 0
  THEN [burnt |-> <<>>, cards |-> cards]
  ELSE [burnt |-> <<cards[Len(cards)]>>, cards |-> SubSeq(cards, 1, Len(cards) - 1)]

(***************************************************************************)
(* Player.                                                                 *)
(***************************************************************************)
PlayerNew(chips) ==
  [chips |-> chips, hole_cards |-> <<>>, current_bet |-> 0,
   folded |-> FALSE, all_in |-> FALSE, acted |-> FALSE]

ReceiveCards(p, cards) == [p EXCEPT !.hole_cards = @ \o cards]

\* bet refusing an amount equal to the stack.
PlayerBetRefusesWholeStack(p, amount) ==
  IF amount >= p.chips
  THEN [err |-> "Insufficient chips", p |-> p]
  ELSE [err |-> "",
        p |-> [p EXCEPT !.chips = @ - amount,
                        !.current_bet = @ + amount,
                        !.all_in = IF p.chips - amount = 0 THEN TRUE ELSE @,
                        !.acted = TRUE]]

\* Player::bet
PlayerBet(p, amount) ==
  IF amount > p.chips
  THEN [err |-> "Insufficient chips", p |-> p]
  ELSE [err |-> "",
        p |-> [p EXCEPT !.chips = @ - amount,
                        !.current_bet = @ + amount,
                        !.all_in = IF p.chips - amount = 0 THEN TRUE ELSE @,
                        !.acted = TRUE]]

\* collect_pot replacing the stack by the award instead of adding to it.
CollectPotOverwrites(p, amount) == [p EXCEPT !.chips = amount]

\* Player::collect_pot
CollectPot(p, amount) == [p EXCEPT !.chips = @ + amount]

ResetForNewHand(p) ==
  [p EXCEPT !.hole_cards = <<>>, !.current_bet = 0, !.folded = FALSE,
            !.all_in = FALSE, !.acted = FALSE]

(***************************************************************************)
(* EvaluatedHand and PokerHandEvaluator.                                   *)
(***************************************************************************)
EvaluatedHand(rank, primary_values, kickers) ==
  [rank |-> rank, primary_values |-> primary_values, kickers |-> kickers]

\* Ord for Vec<u8>: the first differing element decides, a proper prefix is
\* smaller.  -1, 0, 1 for Less, Equal, Greater.
VecCmp(a, b) ==
  LET n == Min(Len(a), Len(b))
      diff == {i \in 1..n : a[i] # b[i]}
  IN IF diff # {}
     THEN LET k == CHOOSE i \in diff : \A j \in diff : i <= j
          IN IF a[k] < b[k] THEN -1 ELSE 1
     ELSE IF Len(a) < Len(b) THEN -1
     ELSE IF Len(a) > Len(b) THEN 1
     ELSE 0

\* derive(Ord) on EvaluatedHand: rank, then primary_values, then kickers.
HandCmp(a, b) ==
  IF a.rank # b.rank THEN (IF a.rank < b.rank THEN -1 ELSE 1)
  ELSE IF VecCmp(a.primary_values, b.primary_values) # 0
       THEN VecCmp(a.primary_values, b.primary_values)
  ELSE VecCmp(a.kickers, b.kickers)

\* windows(2).all(|w| w[1] == w[0] + 1) on sorted[i..i+5] (1-based start i)
IsRun(sorted, i) == \A k \in 0..3 : sorted[i + k + 1] = sorted[i + k] + 1

\* find_straight: <<>> stands for None.  The scan goes up from the lowest
\* window and returns the first run it meets.
FindStraight(ranks) ==
  IF Len(ranks) < 5 THEN <<>>
  ELSE
    LET sorted_ranks == AscOf(Range(ranks))
        starts == {i \in 1..(SaturatingSub(Len(sorted_ranks), 5) + 1) :
                     i + 4 <= Len(sorted_ranks) /\ IsRun(sorted_ranks, i)}
        ace_low_ranks ==
          AscOf({IF r = 14 THEN 1 ELSE r : r \in Range(sorted_ranks)})
        low_starts == {i \in 1..(SaturatingSub(Len(ace_low_ranks), 5) + 1) :
                         i + 4 <= Len(ace_low_ranks) /\ IsRun(ace_low_ranks, i)}
    IN IF starts # {}
       THEN LET i == CHOOSE x \in starts : \A y \in starts : x <= y
            IN Reverse(SubSeq(sorted_ranks, i, i + 4))
       ELSE IF 14 \in Range(sorted_ranks) /\ low_starts # {}
            THEN <<5, 4, 3, 2, 1>>
       ELSE <<>>

\* ranks.iter().filter(|r| r not in excluded).take(n)
KickersOf(ranks, excluded, n) ==
  Take(SelectSeq(ranks, LAMBDA r : r \notin excluded), n)

\* PokerHandEvaluator::evaluate.  The result is the SET of hands the call can
\* return: rank_counts and suit_counts are HashMaps, and wherever the code
\* takes the first entry of an iteration that satisfies a test, every entry
\* that satisfies it is a possible outcome.
Evaluate(hole_cards, community_cards) ==
  LET all_cards == hole_cards \o community_cards
      ranks == SortDesc([i \in 1..Len(all_cards) |-> all_cards[i].rank])
      ranks_dedup == Reverse(AscOf(Range(ranks)))
      rank_counts == [r \in Range(ranks) |-> Occurrences(ranks, r)]
      fours == {r \in DOMAIN rank_counts : rank_counts[r] = 4}
      full_house_ranks == {r \in DOMAIN rank_counts : rank_counts[r] >= 2}
      threes_up == {r \in full_house_ranks : rank_counts[r] >= 3}
      suit_of == [i \in 1..Len(all_cards) |-> all_cards[i].suit]
      flush_suits == {s \in Range(suit_of) : Occurrences(suit_of, s) >= 5}
      flush_cards(s) ==
        SortDesc(LET of_suit == SelectSeq(all_cards, LAMBDA c : c.suit = s)
                 IN [i \in 1..Len(of_suit) |-> of_suit[i].rank])
      straight_ranks == FindStraight(ranks_dedup)
      threes == {r \in DOMAIN rank_counts : rank_counts[r] = 3}
      two_pair_ranks == {r \in DOMAIN rank_counts : rank_counts[r] = 2}
  IN
  IF Len(all_cards) < 5 THEN {EvaluatedHand(HighCard, <<>>, <<>>)}
  ELSE IF fours # {} THEN
    {EvaluatedHand(FourOfAKind, <<four_rank>>, KickersOf(ranks, {four_rank}, 1)) :
       four_rank \in fours}
  ELSE IF Cardinality(full_house_ranks) >= 2 /\ threes_up # {} THEN
    UNION {{EvaluatedHand(FullHouse, <<three, pair>>, <<>>) :
              pair \in full_house_ranks \ {three}} : three \in threes_up}
  ELSE IF flush_suits # {} THEN
    {LET sf == FindStraight(flush_cards(suit))
     IN IF sf # <<>>
        THEN IF sf[1] = 14 /\ sf[2] = 13
             THEN EvaluatedHand(RoyalFlush, <<14>>, <<>>)
             ELSE EvaluatedHand(StraightFlush, sf, <<>>)
        ELSE EvaluatedHand(Flush, Take(flush_cards(suit), 5), <<>>) :
       suit \in flush_suits}
  ELSE IF straight_ranks # <<>> THEN
    {EvaluatedHand(Straight, straight_ranks, <<>>)}
  ELSE IF threes # {} THEN
    {EvaluatedHand(ThreeOfAKind, <<three_rank>>, KickersOf(ranks, {three_rank}, 2)) :
       three_rank \in threes}
  ELSE IF Cardinality(two_pair_ranks) >= 2 THEN
    LET pairs == Reverse(AscOf(two_pair_ranks))
        first_pair == pairs[1]
        second_pair == pairs[2]
    IN {EvaluatedHand(TwoPair, <<first_pair, second_pair>>,
                      KickersOf(ranks, {first_pair, second_pair}, 1))}
  ELSE IF two_pair_ranks # {} THEN
    {EvaluatedHand(Pair, <<pair_rank>>, KickersOf(ranks, {pair_rank}, 3)) :
       pair_rank \in two_pair_ranks}
  ELSE {EvaluatedHand(HighCard, <<>>, Take(ranks, 5))}

(***************************************************************************)
(* PokerGameState.  The operators below work on a record of the struct's   *)
(* fields (plus `burned`, the cards Deck::burn has thrown away this hand,  *)
(* which the program does not keep) so that one call, with everything it   *)
(* cascades into, is a single step.                                        *)
(***************************************************************************)
Seats == 0..(NUM_PLAYERS - 1)

\* PokerGameState::update_action_bounds
UpdateActionBounds(s) ==
  IF s.current_player >= NUM_PLAYERS THEN s
  ELSE
    LET current_call == s.to_call
        min_raise == current_call * 2
        player_chips == s.players[s.current_player].chips
        new_min == IF current_call = 0 THEN BIG_BLIND_CHIPS ELSE min_raise
        new_max == Min(player_chips, MAX_BET_DEFAULT * MAX_BET_MULTIPLIER)
        raised == IF s.bet_amount < new_min THEN new_min ELSE s.bet_amount
        clamped == IF raised > new_max THEN new_max ELSE raised
    IN [s EXCEPT !.min_bet = new_min, !.max_bet = new_max, !.bet_amount = clamped]

\* post_blinds with the two blind seats exchanged.
PostBlindsSwapped(s) ==
  LET sb_position == (s.dealer_position + 2) % NUM_PLAYERS
      bb_position == (s.dealer_position + 1) % NUM_PLAYERS
      sb == PlayerBet(s.players[sb_position], SMALL_BLIND_CHIPS)
      s1 == [s EXCEPT !.players[sb_position] = sb.p]
      bb == PlayerBet(s1.players[bb_position], BIG_BLIND_CHIPS)
      s2 == [s1 EXCEPT !.players[bb_position] = bb.p]
  IN IF sb.err # "" THEN [err |-> sb.err, s |-> s]
     ELSE IF bb.err # "" THEN [err |-> bb.err, s |-> s1]
     ELSE [err |-> "",
           s |-> [s2 EXCEPT !.pot = @ + SMALL_BLIND_CHIPS + BIG_BLIND_CHIPS]]

\* PokerGameState::post_blinds
PostBlinds(s) ==
  LET sb_position == (s.dealer_position + 1) % NUM_PLAYERS
      bb_position == (s.dealer_position + 2) % NUM_PLAYERS
      sb == PlayerBet(s.players[sb_position], SMALL_BLIND_CHIPS)
      s1 == [s EXCEPT !.players[sb_position] = sb.p]
      bb == PlayerBet(s1.players[bb_position], BIG_BLIND_CHIPS)
      s2 == [s1 EXCEPT !.players[bb_position] = bb.p]
  IN IF sb.err # "" THEN [err |-> sb.err, s |-> s]
     ELSE IF bb.err # "" THEN [err |-> bb.err, s |-> s1]
     ELSE [err |-> "",
           s |-> [s2 EXCEPT !.pot = @ + SMALL_BLIND_CHIPS + BIG_BLIND_CHIPS]]

RECURSIVE DealHoleCards(_, _)
\* The hole-card loop of start_new_hand, from seat i on.
DealHoleCards(s, i) ==
  IF i >= NUM_PLAYERS THEN [err |-> "", s |-> s]
  ELSE LET d == Deal(s.deck, 2)
       IN IF d.ok
          THEN DealHoleCards([s EXCEPT !.deck = d.cards,
                                       !.players[i] = ReceiveCards(@, d.dealt)],
                             i + 1)
          ELSE [err |-> "Failed to deal hole cards", s |-> s]

\* The first test of start_new_hand.
EnoughPlayers(s) ==
  Cardinality({i \in Seats : s.players[i].chips >= MIN_CHIPS_TO_CONTINUE}) >= 2

\* PokerGameState::start_new_hand; `shuffled` is what Deck::shuffle left.
StartNewHand(s, shuffled) ==
  IF ~EnoughPlayers(s)
  THEN [err |-> "Not enough players with sufficient chips", s |-> s]
  ELSE
    LET b == Burn(shuffled)
        s1 == [s EXCEPT !.players = [i \in Seats |-> ResetForNewHand(s.players[i])],
                        !.deck = b.cards,
                        !.burned = b.burnt,
                        !.community_cards = <<>>]
        dealt == DealHoleCards(s1, 0)
        s2 == [dealt.s EXCEPT !.pot = 0]
        posted == PostBlinds(s2)
        s3 == [posted.s EXCEPT
                 !.stage = "Preflop",
                 !.current_player = (s.dealer_position + 3) % NUM_PLAYERS,
                 !.to_call = BIG_BLIND_CHIPS,
                 !.pending_action = TRUE]
    IN IF dealt.err # "" THEN dealt
       ELSE IF posted.err # "" THEN posted
       ELSE [err |-> "", s |-> UpdateActionBounds(s3)]

\* PokerGameState::get_active_players, as the ascending list of seats.
GetActivePlayers(s) == AscOf({i \in Seats : ~s.players[i].folded})

\* PokerGameState::get_betting_players
GetBettingPlayers(s) ==
  AscOf({i \in Seats : ~s.players[i].folded /\ ~s.players[i].all_in})

\* end_hand rotating the dealer without closing the stage.
EndHandKeepsStage(s) ==
  [s EXCEPT !.dealer_position = (@ + 1) % NUM_PLAYERS]

\* PokerGameState::end_hand
EndHand(s) ==
  [s EXCEPT !.stage = "HandComplete",
            !.dealer_position = (@ + 1) % NUM_PLAYERS]

\* deal_community_cards burning a card without taking it off the deck.
DealCommunityCardsKeepsBurn(s, count) ==
  LET b == Burn(s.deck)
      d == Deal(s.deck, count)
  IN [s EXCEPT !.deck = d.cards,
               !.burned = @ \o b.burnt,
               !.community_cards = @ \o d.dealt]

\* PokerGameState::deal_community_cards
DealCommunityCards(s, count) ==
  LET b == Burn(s.deck)
      d == Deal(b.cards, count)
  IN [s EXCEPT !.deck = d.cards,
               !.burned = @ \o b.burnt,
               !.community_cards = @ \o d.dealt]

RECURSIVE RunOutLoop(_)
\* The while loop of run_out_board.
RunOutLoop(s) ==
  IF Len(s.community_cards) >= 5 THEN s
  ELSE IF s.stage = "Preflop"
       THEN RunOutLoop([DealCommunityCards(s, 3) EXCEPT !.stage = "Flop"])
  ELSE IF s.stage = "Flop"
       THEN RunOutLoop([DealCommunityCards(s, 1) EXCEPT !.stage = "Turn"])
  ELSE IF s.stage = "Turn"
       THEN RunOutLoop([DealCommunityCards(s, 1) EXCEPT !.stage = "River"])
  ELSE s

\* PokerGameState::run_out_board
RunOutBoard(s) == [RunOutLoop(s) EXCEPT !.stage = "Showdown"]

RECURSIVE ScanHands(_, _, _, _)
\* The loop of determine_winner over active[k..]: `best` is <<>> for None or
\* <<hand>>, `winners` the list so far; hands[i] is what evaluate returned
\* for seat i.
ScanHands(active, hands, k, acc) ==
  IF k > Len(active) THEN acc
  ELSE
    LET player_idx == active[k]
        hand == hands[player_idx]
        next ==
          IF acc.best = <<>>
          THEN [best |-> <<hand>>, winners |-> Append(acc.winners, player_idx)]
          ELSE IF HandCmp(hand, acc.best[1]) = 1
               THEN [best |-> <<hand>>, winners |-> <<player_idx>>]
          ELSE IF HandCmp(hand, acc.best[1]) = 0
               THEN [best |-> acc.best, winners |-> Append(acc.winners, player_idx)]
          ELSE acc
    IN ScanHands(active, hands, k + 1, next)

RECURSIVE CollectAll(_, _, _, _)
\* for &winner_idx in &winners { collect_pot(split_amount) }
CollectAll(players, winners, k, split_amount) ==
  IF k > Len(winners) THEN players
  ELSE CollectAll([players EXCEPT ![winners[k]] = CollectPot(@, split_amount)],
                  winners, k + 1, split_amount)

\* determine_winner handing the odd chips to the last winner instead of the
\* first.
DistributeOddChipsToLast(s, active, hands) ==
  LET winners == ScanHands(active, hands, 1, [best |-> <<>>, winners |-> <<>>]).winners
  IN IF winners = <<>> THEN EndHand(s)
     ELSE
       LET split_amount == s.pot \div Len(winners)
           remainder == s.pot % Len(winners)
           paid == CollectAll(s.players, winners, 1, split_amount)
           topped == IF remainder > 0
                     THEN [paid EXCEPT ![winners[Len(winners)]] = CollectPot(@, remainder)]
                     ELSE paid
       IN EndHand([s EXCEPT !.players = topped])

\* The part of determine_winner after the hands have been evaluated.
Distribute(s, active, hands) ==
  LET winners == ScanHands(active, hands, 1, [best |-> <<>>, winners |-> <<>>]).winners
  IN IF winners = <<>> THEN EndHand(s)
     ELSE
       LET split_amount == s.pot \div Len(winners)
           remainder == s.pot % Len(winners)
           paid == CollectAll(s.players, winners, 1, split_amount)
           topped == IF remainder > 0
                     THEN [paid EXCEPT ![winners[1]] = CollectPot(@, remainder)]
                     ELSE paid
       IN EndHand([s EXCEPT !.players = topped])

\* PokerGameState::determine_winner: the set of states it can leave, one per
\* way evaluate can come out for the active seats.
DetermineWinner(s) ==
  LET active == GetActivePlayers(s)
      possible(i) == Evaluate(s.players[i].hole_cards, s.community_cards)
  IN IF Len(active) = 1
     THEN {EndHand([s EXCEPT !.players[active[1]] = CollectPot(@, s.pot)])}
     ELSE {Distribute(s, active, hands) :
             hands \in {h \in [Range(active) -> UNION {possible(i) : i \in Range(active)}] :
                          \A i \in Range(active) : h[i] \in possible(i)}}

\* PokerGameState::advance_street
AdvanceStreet(s) ==
  LET s1 == [s EXCEPT !.players = [i \in Seats |-> [s.players[i] EXCEPT !.acted = FALSE]],
                      !.to_call = 0]
      staged ==
        IF s1.stage = "Preflop"
        THEN {[DealCommunityCards(s1, 3) EXCEPT !.stage = "Flop"]}
        ELSE IF s1.stage = "Flop"
        THEN {[DealCommunityCards(s1, 1) EXCEPT !.stage = "Turn"]}
        ELSE IF s1.stage = "Turn"
        THEN {[DealCommunityCards(s1, 1) EXCEPT !.stage = "River"]}
        ELSE IF s1.stage = "River"
        THEN DetermineWinner([s1 EXCEPT !.stage = "Showdown"])
        ELSE {EndHand(s1)}
  IN {UpdateActionBounds(
        [t EXCEPT !.current_player = (t.dealer_position + 1) % NUM_PLAYERS,
                  !.pending_action = TRUE]) : t \in staged}

\* check_street_complete closing the street as soon as every betting player
\* has acted, without comparing the bets to to_call.
CheckStreetCompleteIgnoresBets(s) ==
  LET active_players == GetActivePlayers(s)
      betting_players == GetBettingPlayers(s)
      all_acted == \A k \in 1..Len(betting_players) :
                      s.players[betting_players[k]].acted
  IN IF Len(active_players) = 1
     THEN {EndHand([s EXCEPT !.players[active_players[1]] = CollectPot(@, s.pot)])}
     ELSE IF betting_players = <<>>
     THEN DetermineWinner(RunOutBoard(s))
     ELSE IF all_acted
     THEN AdvanceStreet(s)
     ELSE {s}

\* PokerGameState::check_street_complete
CheckStreetComplete(s) ==
  LET active_players == GetActivePlayers(s)
      betting_players == GetBettingPlayers(s)
      all_acted == \A k \in 1..Len(betting_players) :
                      s.players[betting_players[k]].acted
      bets_equal == \A k \in 1..Len(betting_players) :
                      s.players[betting_players[k]].current_bet = s.to_call
  IN IF Len(active_players) = 1
     THEN {EndHand([s EXCEPT !.players[active_players[1]] = CollectPot(@, s.pot)])}
     ELSE IF betting_players = <<>>
     THEN DetermineWinner(RunOutBoard(s))
     ELSE IF all_acted /\ bets_equal
     THEN AdvanceStreet(s)
     ELSE {s}

RECURSIVE NextSeat(_, _, _)
\* The while loop of advance_to_next_player.
NextSeat(players, current_player, attempts) ==
  IF attempts >= NUM_PLAYERS THEN current_player
  ELSE LET next == (current_player + 1) % NUM_PLAYERS
       IN IF players[next].folded \/ players[next].all_in
          THEN NextSeat(players, next, attempts + 1)
          ELSE next

\* PokerGameState::advance_to_next_player
AdvanceToNextPlayer(s) ==
  CheckStreetComplete(
    [s EXCEPT !.current_player = NextSeat(s.players, s.current_player, 0)])

(***************************************************************************)
(* perform_action: one operator per arm of the match, each giving the      *)
(* error ("" for none) and the state the arm leaves, before the turn moves *)
(* on.  call_amount is to_call.saturating_sub(current_bet) of the seat to  *)
(* act.                                                                    *)
(***************************************************************************)
CallAmount(s) ==
  SaturatingSub(s.to_call, s.players[s.current_player].current_bet)

\* PlayerAction::Fold
ActFold(s) ==
  [err |-> "", s |-> [s EXCEPT !.players[s.current_player].folded = TRUE]]

\* The Check arm marking the seat as having acted before it tests the bet.
ActCheckMarksFirst(s) ==
  LET marked == [s EXCEPT !.players[s.current_player].acted = TRUE]
  IN IF CallAmount(s) > 0
     THEN [err |-> "Cannot check when a bet is pending", s |-> marked]
     ELSE [err |-> "", s |-> marked]

\* PlayerAction::Check
ActCheck(s) ==
  IF CallAmount(s) > 0
  THEN [err |-> "Cannot check when a bet is pending", s |-> s]
  ELSE [err |-> "", s |-> [s EXCEPT !.players[s.current_player].acted = TRUE]]

\* The Call arm paying to_call in full instead of the difference to the
\* seat's current_bet.
ActCallFullAmount(s) ==
  LET player_idx == s.current_player
      actual_call == Min(s.to_call, s.players[player_idx].chips)
      b == PlayerBet(s.players[player_idx], actual_call)
  IN IF b.err # "" THEN [err |-> b.err, s |-> s]
     ELSE [err |-> "",
           s |-> [s EXCEPT !.players[player_idx] = [b.p EXCEPT !.acted = TRUE],
                           !.pot = @ + actual_call]]

\* PlayerAction::Call
ActCall(s) ==
  LET player_idx == s.current_player
      actual_call == Min(CallAmount(s), s.players[player_idx].chips)
      b == PlayerBet(s.players[player_idx], actual_call)
  IN IF b.err # "" THEN [err |-> b.err, s |-> s]
     ELSE [err |-> "",
           s |-> [s EXCEPT !.players[player_idx] = [b.p EXCEPT !.acted = TRUE],
                           !.pot = @ + actual_call]]

\* PlayerAction::Bet
ActBet(s) ==
  LET player_idx == s.current_player
      bet_amount == Min(s.bet_amount, s.players[player_idx].chips)
      b == PlayerBet(s.players[player_idx], bet_amount)
  IN IF CallAmount(s) > 0
     THEN [err |-> "Use Raise action instead of Bet when a bet is pending", s |-> s]
     ELSE IF b.err # "" THEN [err |-> b.err, s |-> s]
     ELSE [err |-> "",
           s |-> [s EXCEPT !.players[player_idx] = b.p,
                           !.to_call = bet_amount,
                           !.pot = @ + bet_amount]]

\* The Raise arm adding the whole new bet to the pot instead of the chips
\* the raise takes from the stack.
ActRaisePotTotal(s) ==
  LET player_idx == s.current_player
      raise_amount == Min(s.bet_amount, s.players[player_idx].chips)
      total_bet == s.players[player_idx].current_bet + raise_amount
      b == PlayerBet(s.players[player_idx], raise_amount)
  IN IF total_bet <= s.to_call
     THEN [err |-> "Raise must be greater than current bet", s |-> s]
     ELSE IF b.err # "" THEN [err |-> b.err, s |-> s]
     ELSE [err |-> "",
           s |-> [s EXCEPT !.players[player_idx] = b.p,
                           !.to_call = total_bet,
                           !.pot = @ + total_bet]]

\* PlayerAction::Raise
ActRaise(s) ==
  LET player_idx == s.current_player
      raise_amount == Min(s.bet_amount, s.players[player_idx].chips)
      total_bet == s.players[player_idx].current_bet + raise_amount
      b == PlayerBet(s.players[player_idx], raise_amount)
  IN IF total_bet <= s.to_call
     THEN [err |-> "Raise must be greater than current bet", s |-> s]
     ELSE IF b.err # "" THEN [err |-> b.err, s |-> s]
     ELSE [err |-> "",
           s |-> [s EXCEPT !.players[player_idx] = b.p,
                           !.to_call = total_bet,
                           !.pot = @ + raise_amount]]

\* The AllIn arm leaving to_call alone when the stack moved in exceeds it.
ActAllInKeepsToCall(s) ==
  LET player_idx == s.current_player
      all_in_amount == s.players[player_idx].chips
      b == PlayerBet(s.players[player_idx], all_in_amount)
  IN IF b.err # "" THEN [err |-> b.err, s |-> s]
     ELSE [err |-> "",
           s |-> [s EXCEPT !.players[player_idx] = b.p,
                           !.pot = @ + all_in_amount]]

\* PlayerAction::AllIn
ActAllIn(s) ==
  LET player_idx == s.current_player
      current_bet == s.players[player_idx].current_bet
      all_in_amount == s.players[player_idx].chips
      b == PlayerBet(s.players[player_idx], all_in_amount)
  IN IF b.err # "" THEN [err |-> b.err, s |-> s]
     ELSE [err |-> "",
           s |-> [s EXCEPT !.players[player_idx] = b.p,
                           !.pot = @ + all_in_amount,
                           !.to_call = IF current_bet + all_in_amount > @
                                       THEN current_bet + all_in_amount ELSE @]]

\* The match of perform_action.
ActArm(s, action) ==
  CASE action = "Fold" -> ActFold(s)
    [] action = "Check" -> ActCheck(s)
    [] action = "Call" -> ActCall(s)
    [] action = "Bet" -> ActBet(s)
    [] action = "Raise" -> ActRaise(s)
    [] action = "AllIn" -> ActAllIn(s)

\* PokerGameState::perform_action: the set of (error, state) pairs the call
\* can end in.
PerformAction(s, action) ==
  IF ~s.pending_action THEN {[err |-> "No pending action", s |-> s]}
  ELSE IF s.players[s.current_player].folded \/ s.players[s.current_player].all_in
  THEN {[err |-> "Player cannot act", s |-> s]}
  ELSE LET arm == ActArm(s, action)
       IN IF arm.err # "" THEN {arm}
          ELSE {[err |-> "", s |-> t] : t \in AdvanceToNextPlayer(arm.s)}

\* `amount as u64` for the sizes the exploration passes: negatives go to 0.
AsU64(amount) == IF amount < 0 THEN 0 ELSE amount

\* PokerGameState::set_bet_amount
SetBetAmount(s, amount) ==
  LET a == AsU64(amount)
  IN IF a >= s.min_bet /\ a <= s.max_bet THEN [s EXCEPT !.bet_amount = a] ELSE s

(***************************************************************************)
(* The state machine.                                                      *)
(***************************************************************************)
VARIABLES deck, burned, players, community_cards, pot, stage, dealer_position,
          current_player, to_call, pending_action, bet_amount, min_bet, max_bet,
          last, hands, actions, sizings, hand_dealer, yielded, arg, ret

\* the engine
fields == <<deck, burned, players, community_cards, pot, stage, dealer_position,
            current_player, to_call, pending_action, bet_amount, min_bet, max_bet>>

vars == <<deck, burned, players, community_cards, pot, stage, dealer_position,
          current_player, to_call, pending_action, bet_amount, min_bet, max_bet,
          last, hands, actions, sizings, hand_dealer, yielded, arg, ret>>

\* The engine as the record the operators above work on.
Engine ==
  [deck |-> deck, burned |-> burned, players |-> players,
   community_cards |-> community_cards, pot |-> pot, stage |-> stage,
   dealer_position |-> dealer_position, current_player |-> current_player,
   to_call |-> to_call, pending_action |-> pending_action,
   bet_amount |-> bet_amount, min_bet |-> min_bet, max_bet |-> max_bet]

\* The next state's engine is the record t.
Becomes(t) ==
  /\ deck' = t.deck
  /\ burned' = t.burned
  /\ players' = t.players
  /\ community_cards' = t.community_cards
  /\ pot' = t.pot
  /\ stage' = t.stage
  /\ dealer_position' = t.dealer_position
  /\ current_player' = t.current_player
  /\ to_call' = t.to_call
  /\ pending_action' = t.pending_action
  /\ bet_amount' = t.bet_amount
  /\ min_bet' = t.min_bet
  /\ max_bet' = t.max_bet

\* The sizes a driver asks set_bet_amount for.
BetRequests == {-1, 5, 9965, 9980}

\* hand_dealer is the dealer position the most recent successful
\* start_new_hand dealt from (-1 before the first); yielded is the set of
\* cards that deal and burn have returned when the deck is driven on its own.
\* arg and ret are the argument and the return value (<<>> before the call)
\* when a function of the library is called on its own.
\* `last` is the most recent call that returned Ok or changed the engine, and
\* how it returned (err = "" for Ok); a call that fails and changes nothing
\* leaves every variable as it was.
Call(op, action, amount, err) ==
  [op |-> op, action |-> action, amount |-> amount, err |-> err]

\* PokerGameState::new
Init ==
  /\ \E shuffled \in Shuffle : deck = shuffled
  /\ burned = <<>>
  /\ players = [i \in Seats |-> PlayerNew(INITIAL_CHIPS)]
  /\ community_cards = <<>>
  /\ pot = 0
  /\ stage = "WaitingToStart"
  /\ dealer_position = 0
  /\ current_player = 0
  /\ to_call = 0
  /\ pending_action = FALSE
  /\ bet_amount = CALL_AMOUNT_DEFAULT
  /\ min_bet = MIN_BET_DEFAULT
  /\ max_bet = MAX_BET_DEFAULT
  /\ last = Call("new", "", 0, "")
  /\ hands = 0
  /\ actions = 0
  /\ sizings = 0
  /\ hand_dealer = -1
  /\ yielded = {}
  /\ arg = <<>>
  /\ ret = <<>>

\* A call of start_new_hand.
DoStartNewHand ==
  \E shuffled \in Shuffle :
    LET r == StartNewHand(Engine, shuffled)
    IN /\ EnoughPlayers(Engine) => hands < MaxHands
       /\ Becomes(r.s)
       /\ last' = IF EnoughPlayers(Engine)
                  THEN Call("start_new_hand", "", 0, r.err) ELSE last
       /\ hands' = IF EnoughPlayers(Engine) THEN hands + 1 ELSE hands
       /\ hand_dealer' = IF r.err = "" THEN r.s.dealer_position ELSE hand_dealer
       /\ UNCHANGED <<actions, sizings, yielded, arg, ret>>

\* A call of perform_action(action).
DoPerformAction ==
  \E action \in PlayerAction :
    \E r \in PerformAction(Engine, action) :
      /\ r.err = "" => actions < MaxActions
      /\ Becomes(r.s)
      /\ last' = IF r.err = "" THEN Call("perform_action", action, 0, "") ELSE last
      /\ actions' = IF r.err = "" THEN actions + 1 ELSE actions
      /\ UNCHANGED <<hands, sizings, hand_dealer, yielded, arg, ret>>

\* A call of set_bet_amount(amount).
DoSetBetAmount ==
  \E amount \in BetRequests :
    LET t == SetBetAmount(Engine, amount)
    IN /\ t # Engine => sizings < MaxSizings
       /\ Becomes(t)
       /\ last' = IF t # Engine THEN Call("set_bet_amount", "", amount, "") ELSE last
       /\ sizings' = IF t # Engine THEN sizings + 1 ELSE sizings
       /\ UNCHANGED <<hands, actions, hand_dealer, yielded, arg, ret>>

Next == DoStartNewHand \/ DoPerformAction \/ DoSetBetAmount

Spec == Init /\ [][Next]_vars

(***************************************************************************)
(* Hands picked up in the later streets.  The exploration above stops a    *)
(* few calls into a hand; LateInit starts from states the engine is in     *)
(* after a longer sequence of calls, computed by applying the same         *)
(* operators to a fresh engine, and goes on from there with the same       *)
(* calls; one more hand may be started.                                    *)
(***************************************************************************)
\* PokerGameState::new
PokerGameStateNew(shuffled) ==
  [deck |-> shuffled, burned |-> <<>>,
   players |-> [i \in Seats |-> PlayerNew(INITIAL_CHIPS)],
   community_cards |-> <<>>, pot |-> 0, stage |-> "WaitingToStart",
   dealer_position |-> 0, current_player |-> 0, to_call |-> 0,
   pending_action |-> FALSE, bet_amount |-> CALL_AMOUNT_DEFAULT,
   min_bet |-> MIN_BET_DEFAULT, max_bet |-> MAX_BET_DEFAULT]

\* The engine after one call c: start_new_hand with the deck c.deck,
\* perform_action(c.action) or set_bet_amount(c.amount).
AfterCall(s, c) ==
  CASE c.op = "start_new_hand" -> StartNewHand(s, c.deck).s
    [] c.op = "perform_action" -> (CHOOSE r \in PerformAction(s, c.action) : TRUE).s
    [] c.op = "set_bet_amount" -> SetBetAmount(s, c.amount)

RECURSIVE AfterCalls(_, _)
\* The engine after the calls of a script, in order; t is the state one call
\* leaves, the next is applied to it.
AfterCalls(s, script) ==
  IF script = <<>> THEN s
  ELSE CHOOSE u \in {AfterCalls(t, Tail(script)) : t \in {AfterCall(s, Head(script))}} :
         TRUE

Start(shuffled) == [op |-> "start_new_hand", deck |-> shuffled]
Act(action) == [op |-> "perform_action", action |-> action]
Size(amount) == [op |-> "set_bet_amount", amount |-> amount]

\* A first hand played to the turn: the small blind calls, then a raise and
\* a call on the flop.
ToTurn(shuffled) ==
  <<Start(shuffled), Act("Call"), Act("Raise"), Act("Call")>>

\* The same hand played to the river: a raise and a call on the turn too.
ToRiver(shuffled) == ToTurn(shuffled) \o <<Act("Raise"), Act("Call")>>

\* A second hand played to the river with seat 1 all-in for less: seat 0
\* wins 1010 from seat 1 in the first hand, then raises to 8995 before the
\* flop, seat 1 calls with its last 8970, and seat 0 bets 20 on the flop and
\* on the turn.  The pot is odd.
ToRiverShort(shuffled) ==
  <<Start(shuffled), Size(1000), Act("Raise"), Act("Call"), Act("Fold"),
    Start(shuffled), Size(8985), Act("Raise"), Act("Call"),
    Size(20), Act("Raise"), Act("Raise")>>

\* A first hand that seat 0 gives up on the flop after a check by seat 1:
\* the hand is complete, seat 1 holds 10020 and seat 0 holds 9980.
ToSecondHand(shuffled) ==
  <<Start(shuffled), Act("Call"), Act("Check"), Act("Fold")>>

\* The tied hand played to the river and split at the showdown after a bet
\* and a raise; then, with the hand complete, seat 0 raises 9980 and seat 1
\* calls 9980 into the old pot: both seats are left with 20 chips.
ToShortStacks(shuffled) ==
  ToRiver(shuffled) \o
    <<Act("Bet"), Act("Raise"), Size(9980), Act("Raise"), Act("Call")>>

\* The scripts the later-street exploration starts from.
LateScripts ==
  {ToRiver(shuffled) : shuffled \in Shuffle} \cup
  {ToTurn(Stacked(TopTie)), ToRiverShort(Stacked(TopTie)),
   ToSecondHand(Stacked(TopTie)), ToShortStacks(Stacked(TopTie))}

LateInit ==
  \E script \in LateScripts :
    \E t \in {AfterCalls(PokerGameStateNew(Head(script).deck), script)} :
    LET c == script[Len(script)]
    IN /\ deck = t.deck
       /\ burned = t.burned
       /\ players = t.players
       /\ community_cards = t.community_cards
       /\ pot = t.pot
       /\ stage = t.stage
       /\ dealer_position = t.dealer_position
       /\ current_player = t.current_player
       /\ to_call = t.to_call
       /\ pending_action = t.pending_action
       /\ bet_amount = t.bet_amount
       /\ min_bet = t.min_bet
       /\ max_bet = t.max_bet
       /\ last = Call("perform_action", c.action, 0, "")
       /\ hands = MaxHands - 1
       /\ actions = 0
       /\ sizings = 0
       /\ hand_dealer = IF t.stage = "HandComplete"
                        THEN (t.dealer_position + NUM_PLAYERS - 1) % NUM_PLAYERS
                        ELSE t.dealer_position
       /\ yielded = {}
       /\ arg = <<>>
       /\ ret = <<>>

LateSpec == LateInit /\ [][Next]_vars

(***************************************************************************)
(* The deck driven on its own: deal and burn applied to a Deck, either     *)
(* Deck::new or a shuffled one, until it is empty.  Every other variable   *)
(* stays as PokerGameState::new leaves it; yielded collects the cards the  *)
(* two operations have returned.                                           *)
(***************************************************************************)
DeckInit ==
  /\ deck \in {DeckNew} \cup Shuffle
  /\ burned = <<>>
  /\ players = [i \in Seats |-> PlayerNew(INITIAL_CHIPS)]
  /\ community_cards = <<>>
  /\ pot = 0
  /\ stage = "WaitingToStart"
  /\ dealer_position = 0
  /\ current_player = 0
  /\ to_call = 0
  /\ pending_action = FALSE
  /\ bet_amount = CALL_AMOUNT_DEFAULT
  /\ min_bet = MIN_BET_DEFAULT
  /\ max_bet = MAX_BET_DEFAULT
  /\ last = Call("new", "", 0, "")
  /\ hands = 0
  /\ actions = 0
  /\ sizings = 0
  /\ hand_dealer = -1
  /\ yielded = {}
  /\ arg = <<>>
  /\ ret = <<>>

\* everything but the deck and the cards it has yielded
aside == <<burned, players, community_cards, pot, stage, dealer_position,
           current_player, to_call, pending_action, bet_amount, min_bet, max_bet,
           last, hands, actions, sizings, hand_dealer, arg, ret>>

\* A call of Deck::deal(count).
DoDeal ==
  \E count \in 0..MaxDeal :
    LET d == Deal(deck, count)
    IN /\ deck' = d.cards
       /\ yielded' = yielded \cup Range(d.dealt)
       /\ UNCHANGED aside

\* A call of Deck::burn.
DoBurn ==
  LET b == Burn(deck)
  IN /\ deck' = b.cards
     /\ yielded' = yielded \cup Range(b.burnt)
     /\ UNCHANGED aside

DeckNext == DoDeal \/ DoBurn

DeckSpec == DeckInit /\ [][DeckNext]_vars

(***************************************************************************)
(* Functions of the library called on their own.  The engine is parked as  *)
(* PokerGameState::new leaves it (with the deck of Deck::new); arg is drawn *)
(* from a bounded set of inputs and the call puts its return value in ret. *)
(***************************************************************************)
Parked ==
  /\ deck = DeckNew
  /\ burned = <<>>
  /\ players = [i \in Seats |-> PlayerNew(INITIAL_CHIPS)]
  /\ community_cards = <<>>
  /\ pot = 0
  /\ stage = "WaitingToStart"
  /\ dealer_position = 0
  /\ current_player = 0
  /\ to_call = 0
  /\ pending_action = FALSE
  /\ bet_amount = CALL_AMOUNT_DEFAULT
  /\ min_bet = MIN_BET_DEFAULT
  /\ max_bet = MAX_BET_DEFAULT
  /\ last = Call("new", "", 0, "")
  /\ hands = 0
  /\ actions = 0
  /\ sizings = 0
  /\ hand_dealer = -1
  /\ yielded = {}

\* everything but arg and ret
parked == <<deck, burned, players, community_cards, pot, stage, dealer_position,
            current_player, to_call, pending_action, bet_amount, min_bet, max_bet,
            last, hands, actions, sizings, hand_dealer, yielded>>

\* The players Player::bet is called on, and the amounts.
BetInputs ==
  [p : [chips : 0..MaxStack, hole_cards : {<<>>}, current_bet : 0..MaxStack,
        folded : {FALSE}, all_in : BOOLEAN, acted : BOOLEAN],
   amount : 0..(MaxStack + 1)]

BetInit == Parked /\ arg \in BetInputs /\ ret = <<>>

\* A call of Player::bet(amount).
DoBet ==
  /\ ret = <<>>
  /\ ret' = <<PlayerBet(arg.p, arg.amount)>>
  /\ UNCHANGED <<arg, parked>>

BetNext == DoBet

BetSpec == BetInit /\ [][BetNext]_vars

(***************************************************************************)
(* PokerHandEvaluator::evaluate on its own: the argument is a hole/board   *)
(* pair taken from the card sets below, the call puts one of the hands it  *)
(* can return into ret.                                                    *)
(***************************************************************************)
\* Two sets of three and a king.
PoolTriples ==
  <<Card(9, "Spades"), Card(5, "Spades"), Card(9, "Hearts"), Card(5, "Hearts"),
    Card(9, "Diamonds"), Card(5, "Diamonds"), Card(13, "Clubs")>>

\* A set of three and two pairs.
PoolTriplePairs ==
  <<Card(9, "Spades"), Card(5, "Spades"), Card(13, "Clubs"), Card(9, "Hearts"),
    Card(5, "Hearts"), Card(13, "Diamonds"), Card(9, "Diamonds")>>

\* Four sixes, two queens and a three.
PoolFours ==
  <<Card(6, "Spades"), Card(12, "Spades"), Card(6, "Hearts"), Card(6, "Diamonds"),
    Card(12, "Hearts"), Card(6, "Clubs"), Card(3, "Diamonds")>>

\* Spades from the eight to the ace.
PoolSuitedHigh ==
  <<Card(14, "Spades"), Card(8, "Spades"), Card(13, "Spades"), Card(9, "Spades"),
    Card(12, "Spades"), Card(10, "Spades"), Card(11, "Spades")>>

\* The spade wheel, the nine of spades and an off-suit king.
PoolSuitedLow ==
  <<Card(14, "Spades"), Card(2, "Spades"), Card(9, "Spades"), Card(3, "Spades"),
    Card(13, "Hearts"), Card(4, "Spades"), Card(5, "Spades")>>

\* Mixed suits, the ranks two to seven and an ace.
PoolRun ==
  <<Card(2, "Clubs"), Card(7, "Diamonds"), Card(3, "Diamonds"), Card(14, "Hearts"),
    Card(4, "Spades"), Card(6, "Clubs"), Card(5, "Hearts")>>

\* Two pairs among unconnected cards.
PoolPairs ==
  <<Card(2, "Spades"), Card(13, "Diamonds"), Card(2, "Hearts"), Card(7, "Diamonds"),
    Card(11, "Spades"), Card(7, "Clubs"), Card(4, "Clubs")>>

Pools ==
  {PoolTriples, PoolTriplePairs, PoolFours, PoolSuitedHigh, PoolSuitedLow,
   PoolRun, PoolPairs}

\* The cards of pool at the positions idx, in the order of the pool.
Pick(pool, idx) ==
  LET ix == SelectSeq([i \in 1..Len(pool) |-> i], LAMBDA i : i \in idx)
  IN [k \in 1..Len(ix) |-> pool[ix[k]]]

\* 5 to 7 cards of a pool, in the order of the pool or reversed.
Holdings ==
  UNION {UNION {{Pick(pool, idx), Reverse(Pick(pool, idx))} :
                  idx \in {x \in SUBSET (1..Len(pool)) : Cardinality(x) >= 5}} :
           pool \in Pools}

\* evaluate(hole_cards, community_cards): at most 2 hole cards, at most 5
\* community cards.
EvalInputs ==
  UNION {{[hole_cards |-> SubSeq(cs, 1, h), community_cards |-> SubSeq(cs, h + 1, Len(cs))] :
            h \in {x \in 0..2 : Len(cs) - x <= 5}} : cs \in Holdings}

EvalInit == Parked /\ arg \in EvalInputs /\ ret = <<>>

\* let evaluated = PokerHandEvaluator::evaluate(&hole_cards, &community_cards)
DoEvaluate ==
  /\ ret = <<>>
  /\ \E evaluated \in Evaluate(arg.hole_cards, arg.community_cards) :
       ret' = <<evaluated>>
  /\ UNCHANGED <<arg, parked>>

EvalNext == DoEvaluate

EvalSpec == EvalInit /\ [][EvalNext]_vars

(***************************************************************************)
(* Card text: Display for Card and Card::from_string.  A string is a       *)
(* sequence of characters; an ASCII character is written as itself and a   *)
(* suit glyph by its name ("spade" for U+2660, "heart" for U+2665,         *)
(* "diamond" for U+2666, "club" for U+2663, "star" for U+2605, a glyph that *)
(* is no suit).  An Option is <<>> for None and <<v>> for Some(v).         *)
(***************************************************************************)
Glyphs == {"spade", "heart", "diamond", "club", "star"}

Digits == <<"0", "1", "2", "3", "4", "5", "6", "7", "8", "9">>

\* Suit::to_char
ToChar(suit) ==
  CASE suit = "Spades" -> "spade"
    [] suit = "Hearts" -> "heart"
    [] suit = "Diamonds" -> "diamond"
    [] suit = "Clubs" -> "club"

\* Suit::from_char
FromChar(c) ==
  CASE c = "spade" -> <<"Spades">>
    [] c = "heart" -> <<"Hearts">>
    [] c = "diamond" -> <<"Diamonds">>
    [] c = "club" -> <<"Clubs">>
    [] OTHER -> <<>>

\* "{n}" for a u8: the decimal digits, no sign, no padding.
RECURSIVE Decimal(_)
Decimal(n) ==
  IF n < 10 THEN <<Digits[n + 1]>> ELSE Decimal(n \div 10) \o <<Digits[(n % 10) + 1]>>

\* impl Display for Card (to_string)
CardToString(card) ==
  LET rank_str == CASE card.rank = 14 -> <<"A">>
                    [] card.rank = 13 -> <<"K">>
                    [] card.rank = 12 -> <<"Q">>
                    [] card.rank = 11 -> <<"J">>
                    [] card.rank = 10 -> <<"1", "0">>
                    [] OTHER -> Decimal(card.rank)
  IN rank_str \o <<ToChar(card.suit)>>

\* str::len: the length in bytes of the UTF-8 encoding (a glyph takes 3).
ByteLen(s) == Len(s) + 2 * Cardinality({i \in 1..Len(s) : s[i] \in Glyphs})

DigitValue(c) == (CHOOSE i \in 1..10 : Digits[i] = c) - 1

RECURSIVE Accumulate(_, _)
\* The value of a digit string read left to right, from acc.
Accumulate(digits, acc) ==
  IF digits = <<>> THEN acc
  ELSE Accumulate(Tail(digits), acc * 10 + DigitValue(Head(digits)))

\* str::parse::<u8>: an optional "+", then one or more decimal digits whose
\* value fits 8 bits; anything else is an error.
ParseU8(src) ==
  LET digits == IF src # <<>> /\ Head(src) = "+" THEN Tail(src) ELSE src
  IN IF digits = <<>> \/ \E i \in 1..Len(digits) : digits[i] \notin Range(Digits)
     THEN <<>>
     ELSE IF Accumulate(digits, 0) > 255 THEN <<>>
     ELSE <<Accumulate(digits, 0)>>

\* Card::from_string
FromString(s) ==
  IF ByteLen(s) < 2 THEN <<>>
  ELSE
    LET suit_char == s[Len(s)]
        suit == FromChar(suit_char)
        rank_part == SubSeq(s, 1, Len(s) - 1)
        rank == CASE rank_part = <<"A">> -> <<14>>
                  [] rank_part = <<"K">> -> <<13>>
                  [] rank_part = <<"Q">> -> <<12>>
                  [] rank_part = <<"J">> -> <<11>>
                  [] OTHER -> ParseU8(rank_part)
    IN IF suit = <<>> THEN <<>>
       ELSE IF rank = <<>> THEN <<>>
       ELSE IF ~(rank[1] >= 2 /\ rank[1] <= 14) THEN <<>>
       ELSE <<Card(rank[1], suit[1])>>

\* The characters the tokens handed to from_string are made of.
TokenChars == {"0", "1", "2", "4", "9", "A", "K", "J", "+", "x", "spade", "club", "star"}

RECURSIVE TokensOfLength(_)
TokensOfLength(n) ==
  IF n = 0 THEN {<<>>}
  ELSE {<<c>> \o t : c \in TokenChars, t \in TokensOfLength(n - 1)}

Tokens == UNION {TokensOfLength(n) : n \in 0..MaxToken}

\* The argument is a card to print or a token to parse.
TextInit ==
  /\ Parked
  /\ arg \in {[card |-> c] : c \in Range(DeckNew)} \cup {[token |-> t] : t \in Tokens}
  /\ ret = <<>>

\* let s = card.to_string()
DoToString ==
  /\ ret = <<>>
  /\ "card" \in DOMAIN arg
  /\ ret' = <<CardToString(arg.card)>>
  /\ UNCHANGED <<arg, parked>>

\* Card::from_string(&s), on the given token or on the string just printed
DoFromString ==
  /\ \/ "token" \in DOMAIN arg /\ ret = <<>> /\ ret' = <<arg.token, FromString(arg.token)>>
     \/ "card" \in DOMAIN arg /\ Len(ret) = 1 /\ ret' = <<ret[1], FromString(ret[1])>>
  /\ UNCHANGED <<arg, parked>>

TextNext == DoToString \/ DoFromString

TextSpec == TextInit /\ [][TextNext]_vars

(***************************************************************************)
(* The legal-action predicates and get_call_amount of PokerGameState, on   *)
(* the record of the struct's fields.                                      *)
(***************************************************************************)
\* PokerGameState::can_check
CanCheck(s) ==
  /\ s.current_player \in Seats
  /\ LET p == s.players[s.current_player]
     IN ~p.folded /\ p.current_bet = s.to_call

\* PokerGameState::can_call
CanCall(s) ==
  /\ s.current_player \in Seats
  /\ LET p == s.players[s.current_player]
     IN ~p.folded /\ p.chips > 0 /\ p.current_bet < s.to_call

\* PokerGameState::can_bet
CanBet(s) ==
  /\ s.current_player \in Seats
  /\ LET p == s.players[s.current_player]
     IN ~p.folded /\ p.chips > 0 /\ s.to_call = 0

\* PokerGameState::can_raise
CanRaise(s) ==
  /\ s.current_player \in Seats
  /\ LET p == s.players[s.current_player]
     IN /\ ~p.folded
        /\ p.chips > 0
        /\ s.to_call > 0
        /\ p.current_bet < s.to_call + s.min_bet

\* PokerGameState::can_fold
CanFold(s) ==
  /\ s.current_player \in Seats
  /\ ~s.players[s.current_player].folded

\* PokerGameState::get_call_amount
GetCallAmount(s) ==
  IF s.current_player \in Seats
  THEN SaturatingSub(s.to_call, s.players[s.current_player].current_bet)
  ELSE 0

(***************************************************************************)
(* Properties.  A property about what a call does in a state is stated on  *)
(* the outcomes of the call's operator in every reachable state.           *)
(***************************************************************************)
BettingStages == {"Preflop", "Flop", "Turn", "River"}

\* The seat to act.
Actor == players[current_player]

\* An action is awaited from a seat that is able to act, in an open hand.
ActionAwaited ==
  /\ pending_action
  /\ stage \in BettingStages
  /\ ~Actor.folded
  /\ ~Actor.all_in

\* The outcomes of perform_action(action) in the current state.
Outcomes(action) == PerformAction(Engine, action)

\* C1: chip conservation - in every reachable state the two stacks and the
\* pot add up to NUM_PLAYERS x INITIAL_CHIPS.
C1_ChipConservation ==
  players[0].chips + players[1].chips + pot = NUM_PLAYERS * INITIAL_CHIPS

\* C2: while the stage is WaitingToStart or HandComplete every
\* perform_action fails with "No pending action" and changes nothing.
C2_NoActionOutsideHand ==
  stage \in {"WaitingToStart", "HandComplete"} =>
    \A action \in PlayerAction : \A r \in Outcomes(action) :
      r.err = "No pending action" /\ r.s = Engine

\* C3: whenever perform_action returns an error, every field of the engine
\* is what it was before the call.
C3_ActionErrorLeavesState ==
  \A action \in PlayerAction : \A r \in Outcomes(action) :
    r.err # "" => r.s = Engine

\* C3 witness: an action is awaited on the flop from a seat that has not yet
\* acted on this street, and the call is rejected (a check facing a bet).
C3_Witness ==
  /\ ActionAwaited
  /\ stage = "Flop"
  /\ ~Actor.acted
  /\ \E r \in Outcomes("Check") : r.err = "Cannot check when a bet is pending"

\* C4: whenever start_new_hand returns an error, every field of the engine
\* is what it was before the call.
C4_StartErrorLeavesState ==
  \A shuffled \in Shuffle :
    LET r == StartNewHand(Engine, shuffled)
    IN r.err # "" => r.s = Engine

\* C5: start_new_hand fails if and only if fewer than 2 players have chips
\* >= MIN_CHIPS_TO_CONTINUE, and then with the not-enough-players error.
C5_StartFailsOnlyForPlayers ==
  \A shuffled \in Shuffle :
    LET r == StartNewHand(Engine, shuffled)
    IN /\ r.err # "" <=> ~EnoughPlayers(Engine)
       /\ r.err # "" => r.err = "Not enough players with sufficient chips"

\* What C6 says of the state t a successful start_new_hand leaves when the
\* dealer position was d, apart from the all-in flags.
StartedHand(t, d) ==
  /\ t.stage = "Preflop"
  /\ t.community_cards = <<>>
  /\ \A i \in Seats : ~t.players[i].folded /\ Len(t.players[i].hole_cards) = 2
  /\ t.players[(d + 1) % 2].current_bet = SMALL_BLIND_CHIPS
  /\ t.players[(d + 2) % 2].current_bet = BIG_BLIND_CHIPS
  /\ t.pot = SMALL_BLIND_CHIPS + BIG_BLIND_CHIPS
  /\ t.to_call = BIG_BLIND_CHIPS
  /\ t.current_player = (d + 3) % 2
  /\ t.pending_action = TRUE

\* C6 as claimed: after a successful start_new_hand the hand is set up as
\* StartedHand says and no player is folded or all-in.
C6_StartSetsUpHand ==
  \A shuffled \in Shuffle :
    LET r == StartNewHand(Engine, shuffled)
    IN r.err = "" =>
         /\ StartedHand(r.s, dealer_position)
         /\ \A i \in Seats : ~r.s.players[i].all_in

\* C6 amended: after a successful start_new_hand the hand is set up as
\* StartedHand says, no player is folded, and a player is all-in exactly when
\* posting the blind took the last chip of the stack.
C6_StartSetsUpHandAmended ==
  \A shuffled \in Shuffle :
    LET r == StartNewHand(Engine, shuffled)
    IN r.err = "" =>
         /\ StartedHand(r.s, dealer_position)
         /\ \A i \in Seats : r.s.players[i].all_in <=> r.s.players[i].chips = 0

\* C6 witness: start_new_hand has just succeeded and the blind put a player
\* all-in.
C6_Witness ==
  /\ last.op = "start_new_hand"
  /\ last.err = ""
  /\ stage = "Preflop"
  /\ \E i \in Seats : players[i].all_in /\ players[i].chips = 0

\* C7: when an action is awaited and the actor's current_bet differs from
\* to_call, perform_action(Check) fails as an illegal check and changes
\* nothing.
C7_CheckNeedsMatchedBet ==
  (ActionAwaited /\ Actor.current_bet # to_call) =>
    \A r \in Outcomes("Check") :
      r.err = "Cannot check when a bet is pending" /\ r.s = Engine

\* C8: when an action is awaited and to_call > 0, perform_action(Bet) fails
\* with use-raise-instead and changes nothing.
C8_BetNeedsNoOpenBet ==
  (ActionAwaited /\ to_call > 0) =>
    \A r \in Outcomes("Bet") :
      /\ r.err = "Use Raise action instead of Bet when a bet is pending"
      /\ r.s = Engine

\* C9: when an action is awaited and to_call = 0, perform_action(Raise)
\* fails and changes nothing.
C9_RaiseNeedsOpenBet ==
  (ActionAwaited /\ to_call = 0) =>
    \A r \in Outcomes("Raise") : r.err # "" /\ r.s = Engine

\* min(max(0, to_call - current_bet), chips) of the seat to act.
OwedByActor == Min(SaturatingSub(to_call, Actor.current_bet), Actor.chips)

\* What every successful Call does to the caller and the pot (t is the state
\* the call leaves).
CallMovesChips(t) ==
  /\ t.players[current_player].current_bet = Actor.current_bet + OwedByActor
  /\ t.pot = pot + OwedByActor
  /\ t.players[current_player].all_in <=> (Actor.chips - OwedByActor = 0)

\* C10 as claimed: a successful Call takes the owed amount off the caller's
\* chips, adds it to current_bet and pot, marks the caller acted, sets all_in
\* exactly when the stack reaches 0, and leaves to_call unchanged.
C10_CallEffect ==
  \A r \in Outcomes("Call") :
    r.err = "" =>
      /\ CallMovesChips(r.s)
      /\ r.s.players[current_player].chips = Actor.chips - OwedByActor
      /\ r.s.players[current_player].acted
      /\ r.s.to_call = to_call

\* C10 amended: a successful Call adds the owed amount to the caller's
\* current_bet and to the pot and sets all_in exactly when the stack reaches
\* 0; the caller's chips are lower by that amount unless the same call
\* resolves the hand (stage HandComplete); the caller is marked acted and
\* to_call is unchanged unless the same call closes the street or ends the
\* hand (the stage or the dealer position changes).
C10_CallEffectAmended ==
  \A r \in Outcomes("Call") :
    r.err = "" =>
      /\ CallMovesChips(r.s)
      /\ r.s.stage # "HandComplete" =>
           r.s.players[current_player].chips = Actor.chips - OwedByActor
      /\ (r.s.stage = stage /\ r.s.dealer_position = dealer_position) =>
           /\ r.s.players[current_player].acted
           /\ r.s.to_call = to_call

\* C10 witness: a Call has just succeeded on the flop without closing the
\* street: a bet is still open and one more seat has to act.
C10_Witness ==
  /\ last.op = "perform_action"
  /\ last.action = "Call"
  /\ last.err = ""
  /\ stage = "Flop"
  /\ to_call > 0
  /\ ActionAwaited

\* What every successful AllIn does to the seat that moves in and to the pot
\* (t is the state the call leaves).
AllInMovesStack(t) ==
  /\ t.players[current_player].all_in
  /\ t.players[current_player].current_bet = Actor.current_bet + Actor.chips
  /\ t.pot = pot + Actor.chips

\* C11 as claimed: a successful AllIn leaves the seat with 0 chips and all_in
\* set, adds the former stack to its current_bet and to the pot, and leaves
\* to_call at the larger of the previous to_call and the seat's new
\* current_bet (so an all-in for less leaves to_call unchanged).  Stated for
\* the calls made during a betting street.
C11_AllInEffect ==
  \A r \in Outcomes("AllIn") :
    (r.err = "" /\ stage \in BettingStages) =>
      /\ AllInMovesStack(r.s)
      /\ r.s.players[current_player].chips = 0
      /\ r.s.to_call = IF Actor.current_bet + Actor.chips > to_call
                       THEN Actor.current_bet + Actor.chips ELSE to_call

\* C11 amended: a successful AllIn sets all_in and adds the former stack to
\* the seat's current_bet and to the pot; the seat's chips are 0 unless the
\* same call resolves the hand (stage HandComplete); to_call is the larger of
\* the previous to_call and the seat's new current_bet unless the same call
\* closes the street or ends the hand (the stage or the dealer position
\* changes).
C11_AllInEffectAmended ==
  \A r \in Outcomes("AllIn") :
    r.err = "" =>
      /\ AllInMovesStack(r.s)
      /\ r.s.stage # "HandComplete" => r.s.players[current_player].chips = 0
      /\ (r.s.stage = stage /\ r.s.dealer_position = dealer_position) =>
           r.s.to_call = IF Actor.current_bet + Actor.chips > to_call
                         THEN Actor.current_bet + Actor.chips ELSE to_call

\* C11 witness: an AllIn has just succeeded before the flop and the hand goes
\* on: the seat that moved in has no chips, the other seat is asked to match
\* the whole stack.
C11_Witness ==
  /\ last.op = "perform_action"
  /\ last.action = "AllIn"
  /\ stage = "Preflop"
  /\ to_call = INITIAL_CHIPS
  /\ ActionAwaited
  /\ \E i \in Seats : players[i].all_in /\ players[i].chips = 0

\* The seats other than the one to act that have not folded.
OtherLiveSeats == {i \in Seats \ {current_player} : ~players[i].folded}

\* C12: a Fold that succeeds during a betting street and leaves exactly one
\* non-folded player ends the hand in the same call: that player's chips grow
\* by exactly the whole pot, the folder's chips are unchanged, the stage is
\* HandComplete and the community cards are as they were.
C12_FoldAwardsPot ==
  \A r \in Outcomes("Fold") :
    (r.err = "" /\ stage \in BettingStages /\ Cardinality(OtherLiveSeats) = 1) =>
      /\ \A w \in OtherLiveSeats : r.s.players[w].chips = players[w].chips + pot
      /\ r.s.players[current_player].chips = Actor.chips
      /\ r.s.players[current_player].folded
      /\ r.s.stage = "HandComplete"
      /\ r.s.community_cards = community_cards

\* C12 witness: a Fold on the flop has just ended the hand: one seat is
\* folded, the three board cards are still there and the other seat holds
\* more than it started with.
C12_Witness ==
  /\ last.op = "perform_action"
  /\ last.action = "Fold"
  /\ stage = "HandComplete"
  /\ Len(community_cards) = 3
  /\ Cardinality({i \in Seats : players[i].folded}) = 1
  /\ \E i \in Seats : ~players[i].folded /\ players[i].chips > INITIAL_CHIPS

\* The engine as check_street_complete sees it during perform_action(action):
\* the arm has run and the turn has moved to the next seat.
Moved(action) ==
  LET arm == ActArm(Engine, action)
  IN [arm.s EXCEPT !.current_player = NextSeat(arm.s.players, arm.s.current_player, 0)]

\* The stage a betting street closes into; the river closes into the
\* showdown, which the same call resolves to HandComplete.
StreetAfter(st) ==
  CASE st = "Preflop" -> "Flop"
    [] st = "Flop" -> "Turn"
    [] st = "Turn" -> "River"
    [] st = "River" -> "HandComplete"

\* Every betting player of m has acted and has matched to_call.
Settled(m) ==
  \A i \in Seats :
    (~m.players[i].folded /\ ~m.players[i].all_in) =>
      (m.players[i].acted /\ m.players[i].current_bet = m.to_call)

\* C13: a successful perform_action during a betting street that leaves at
\* least two non-folded players and at least one betting player advances the
\* stage by exactly one street (the river into the resolved showdown) if and
\* only if, after the action, every betting player has acted and has
\* current_bet = to_call; on that advance every acted flag is false, to_call
\* is 0 and the seat to act is (dealer_position + 1) mod NUM_PLAYERS, with
\* dealer_position read in the state the call leaves; otherwise the stage is
\* unchanged.  No call moves the stage past the next street other than by
\* ending the hand.
C13_StreetClosing ==
  stage \in BettingStages =>
    \A action \in PlayerAction :
      \A r \in Outcomes(action) :
        r.err = "" =>
          LET m == Moved(action)
          IN /\ r.s.stage \in {stage, StreetAfter(stage), "HandComplete"}
             /\ (Len(GetActivePlayers(m)) >= 2 /\ GetBettingPlayers(m) # <<>>) =>
                  IF Settled(m)
                  THEN /\ r.s.stage = StreetAfter(stage)
                       /\ \A i \in Seats : ~r.s.players[i].acted
                       /\ r.s.to_call = 0
                       /\ r.s.current_player =
                            (r.s.dealer_position + 1) % NUM_PLAYERS
                  ELSE r.s.stage = stage

\* C13 witness: a Call has just closed the river with both players still
\* betting: five board cards, nobody folded or all-in, the hand resolved and
\* the whole pot paid out, every acted flag cleared and to_call 0.
C13_Witness ==
  /\ last.op = "perform_action"
  /\ last.action = "Call"
  /\ stage = "HandComplete"
  /\ Len(community_cards) = 5
  /\ \A i \in Seats : ~players[i].folded /\ ~players[i].all_in /\ ~players[i].acted
  /\ to_call = 0
  /\ current_player = (dealer_position + 1) % NUM_PLAYERS
  /\ players[0].chips + players[1].chips = NUM_PLAYERS * INITIAL_CHIPS

\* The number of board cards a street shows.
BoardSize(st) ==
  CASE st = "Preflop" -> 0
    [] st = "Flop" -> 3
    [] st = "Turn" -> 4
    [] st = "River" -> 5

\* C14: the number of community cards is 0 in Preflop, 3 in Flop, 4 in Turn
\* and 5 in River, and never more than 5 in any stage; a call that moves the
\* stage to Flop, Turn or River adds exactly 3, 1 and 1 cards to the board.
\* (A start_new_hand that fails while posting the blinds has already cleared
\* the board and leaves the stage of the hand it interrupted.)
C14_BoardByStage ==
  /\ Len(community_cards) <= 5
  /\ stage \in BettingStages => Len(community_cards) = BoardSize(stage)
  /\ \A action \in PlayerAction :
       \A r \in Outcomes(action) :
         /\ Len(r.s.community_cards) <= 5
         /\ (r.s.stage # stage /\ r.s.stage \in {"Flop", "Turn", "River"}) =>
              /\ SubSeq(r.s.community_cards, 1, Len(community_cards)) = community_cards
              /\ Len(r.s.community_cards) - Len(community_cards) =
                   IF r.s.stage = "Flop" THEN 3 ELSE 1

\* perform_action(action) reaches the showdown from the current state: it
\* succeeds during a betting street and leaves at least two non-folded
\* players with either nobody left to bet (run-out) or the river settled.
ReachesShowdown(action) ==
  /\ stage \in BettingStages
  /\ ActArm(Engine, action).err = ""
  /\ ~Actor.folded /\ ~Actor.all_in /\ pending_action
  /\ Len(GetActivePlayers(Moved(action))) >= 2
  /\ \/ GetBettingPlayers(Moved(action)) = <<>>
     \/ stage = "River" /\ Settled(Moved(action))

\* The seats among `live` whose hand under h is not beaten by any other.
BestSeats(live, h) ==
  {i \in live : \A j \in live : HandCmp(h[i], h[j]) >= 0}

\* The lowest seat of a non-empty set.
LowestSeat(S) == CHOOSE i \in S : \A j \in S : i <= j

\* From m (chips and pot before the award) to t: the pot went to the best
\* hands on t's board, floor(pot / k) each and pot mod k more to the lowest
\* seat among them, and nobody else's chips moved.
PaidAtShowdown(m, t) ==
  LET live == {i \in Seats : ~m.players[i].folded}
      possible(i) == Evaluate(m.players[i].hole_cards, t.community_cards)
  IN \E h \in [live -> UNION {possible(i) : i \in live}] :
       /\ \A i \in live : h[i] \in possible(i)
       /\ LET winners == BestSeats(live, h)
              k == Cardinality(winners)
              share(i) == IF i \notin winners THEN 0
                          ELSE (m.pot \div k) +
                               (IF i = LowestSeat(winners) THEN m.pot % k ELSE 0)
          IN \A i \in Seats : t.players[i].chips = m.players[i].chips + share(i)

\* C15: when a call reaches the showdown, the pot is distributed only among
\* the non-folded players whose evaluated hand is maximal: with k winners each
\* receives floor(pot / k) and the lowest-indexed winner also receives
\* pot mod k; all other players' chips are unchanged, so the chips credited
\* add up to the pot.
C15_ShowdownSplit ==
  \A action \in PlayerAction :
    ReachesShowdown(action) =>
      \A r \in Outcomes(action) :
        /\ r.s.stage = "HandComplete"
        /\ PaidAtShowdown(Moved(action), r.s)

\* C15 witness: a showdown with an odd pot has just been split: the seat
\* that was all-in holds exactly half the pot rounded down, the lower seat
\* got the odd chip.
C15_Witness ==
  /\ last.op = "perform_action"
  /\ stage = "HandComplete"
  /\ Len(community_cards) = 5
  /\ \A i \in Seats : ~players[i].folded
  /\ pot % 2 = 1
  /\ players[1].all_in /\ players[1].chips = pot \div 2
  /\ players[0].chips = (INITIAL_CHIPS * NUM_PLAYERS) - (pot \div 2)

\* C16: in every reachable state in which some player is neither folded nor
\* all-in, current_player is the seat of such a player.  Stated for the
\* states of a betting street, where the seat is asked to act.
C16_CurrentPlayerCanAct ==
  (/\ stage \in BettingStages
   /\ \E i \in Seats : ~players[i].folded /\ ~players[i].all_in) =>
    (~Actor.folded /\ ~Actor.all_in)

\* The stage changes one call may make.
StageMoves ==
  {<<"WaitingToStart", "Preflop">>, <<"HandComplete", "Preflop">>,
   <<"Preflop", "Flop">>, <<"Flop", "Turn">>, <<"Turn", "River">>} \cup
  {<<st, "HandComplete">> : st \in BettingStages}

\* C17: every change of stage made by a single call is WaitingToStart ->
\* Preflop or HandComplete -> Preflop (both by start_new_hand only),
\* Preflop -> Flop, Flop -> Turn, Turn -> River, or a betting street ->
\* HandComplete; in particular Preflop is never re-entered from Preflop,
\* Flop, Turn or River: a start_new_hand made during a betting street does
\* not succeed.
C17_StageOrder ==
  /\ \A shuffled \in Shuffle :
       LET r == StartNewHand(Engine, shuffled)
       IN /\ r.s.stage # stage => <<stage, r.s.stage>> \in StageMoves
          /\ stage \in BettingStages => r.err # ""
  /\ \A action \in PlayerAction :
       \A r \in Outcomes(action) :
         r.s.stage # stage =>
           /\ <<stage, r.s.stage>> \in StageMoves
           /\ r.s.stage # "Preflop"

\* C18: between one successful start_new_hand and the next successful
\* start_new_hand the dealer position has moved by exactly one seat: a
\* start_new_hand that succeeds deals from the seat after the one the
\* previous hand was dealt from.
C18_DealerRotation ==
  \A shuffled \in Shuffle :
    LET r == StartNewHand(Engine, shuffled)
    IN (r.err = "" /\ hand_dealer # -1) =>
         r.s.dealer_position = (hand_dealer + 1) % NUM_PLAYERS

\* The cards in play: the deck, every hole card, the board and the burned
\* cards, in one sequence.
RECURSIVE HoleCardsFrom(_)
HoleCardsFrom(i) ==
  IF i >= NUM_PLAYERS THEN <<>> ELSE players[i].hole_cards \o HoleCardsFrom(i + 1)

CardsInPlay == deck \o HoleCardsFrom(0) \o community_cards \o burned

\* C19: in every state from a successful start_new_hand on, the deck, the
\* players' hole cards, the community cards and the burned cards are pairwise
\* disjoint and together are exactly the 52 distinct cards.
C19_CardConservation ==
  hand_dealer # -1 =>
    /\ Len(CardsInPlay) = 52
    /\ Range(CardsInPlay) = Range(DeckNew)

\* C19 witness: the river is out after a flop, a turn and a river were dealt
\* with a burn before each, on top of the burn and the hole cards of the
\* start of the hand.
C19_Witness ==
  /\ hand_dealer # -1
  /\ actions > 0
  /\ Len(community_cards) = 5
  /\ Len(burned) = 4
  /\ \A i \in Seats : Len(players[i].hole_cards) = 2
  /\ Len(deck) = 39

\* C20: Deck::new holds 52 distinct cards; deal(count) with count <= len
\* returns exactly the first count cards in order and leaves the rest in
\* order; deal(count) with count > len returns None and leaves the deck
\* unchanged; burn removes exactly the last card; and no sequence of deal and
\* burn yields the same card twice: the deck never holds a card twice nor a
\* card it has already yielded.
C20_DeckOperations ==
  /\ Len(DeckNew) = 52 /\ Cardinality(Range(DeckNew)) = 52
  /\ \A count \in 0..(Len(deck) + 1) :
       LET d == Deal(deck, count)
       IN IF count <= Len(deck)
          THEN /\ d.ok
               /\ Len(d.dealt) = count
               /\ d.dealt \o d.cards = deck
          ELSE /\ ~d.ok
               /\ d.dealt = <<>>
               /\ d.cards = deck
  /\ deck # <<>> =>
       LET b == Burn(deck)
       IN /\ Len(b.burnt) = 1
          /\ b.cards \o b.burnt = deck
  /\ Cardinality(Range(deck)) = Len(deck)
  /\ Range(deck) \cap yielded = {}
  /\ Cardinality(yielded) + Len(deck) = 52

\* C20 witness: deals and burns have taken all but two cards of the deck, so
\* a deal of three is refused while a deal of two or a burn still succeeds.
C20_Witness ==
  /\ Cardinality(yielded) = 50
  /\ Len(deck) = 2
  /\ ~Deal(deck, 3).ok
  /\ Deal(deck, 2).ok
  /\ Burn(deck).burnt = <<deck[2]>>

\* C21: Player::bet(amount) with amount > chips returns an error and leaves
\* chips, current_bet, all_in and acted unchanged; with amount <= chips it
\* takes amount off chips, adds it to current_bet, sets acted, and sets
\* all_in exactly when the resulting chips are 0 (otherwise all_in stays as
\* it was).
C21_PlayerBet ==
  ret # <<>> =>
    LET p == arg.p
        amount == arg.amount
        r == ret[1]
    IN IF amount > p.chips
       THEN /\ r.err # ""
            /\ r.p.chips = p.chips
            /\ r.p.current_bet = p.current_bet
            /\ r.p.all_in = p.all_in
            /\ r.p.acted = p.acted
       ELSE /\ r.err = ""
            /\ r.p.chips + amount = p.chips
            /\ r.p.current_bet = p.current_bet + amount
            /\ r.p.acted
            /\ r.p.all_in = IF r.p.chips = 0 THEN TRUE ELSE p.all_in

\* C21 witness: a bet of the whole stack has been accepted from a player who
\* was not all-in and had not acted: the player now is all-in with 0 chips.
C21_Witness ==
  /\ ret # <<>>
  /\ arg.amount > 0
  /\ ~arg.p.all_in /\ ~arg.p.acted
  /\ ret[1].err = ""
  /\ ret[1].p.chips = 0
  /\ ret[1].p.all_in

\* v clamped into [lo, hi].
Clamp(v, lo, hi) == IF v < lo THEN lo ELSE IF v > hi THEN hi ELSE v

\* C22: set_bet_amount(v) stores the clamp of v into [min_bet, max_bet]: a
\* size below min_bet stores min_bet, a size above max_bet stores max_bet, a
\* size inside the range stores v.  Stated for the states of a betting street
\* in which the range is not empty.
C22_SetBetAmountClamps ==
  (stage \in BettingStages /\ min_bet <= max_bet) =>
    \A amount \in BetRequests :
      SetBetAmount(Engine, amount).bet_amount = Clamp(AsU64(amount), min_bet, max_bet)

\* The cards evaluate was called with, and the hand it returned.
Cards == arg.hole_cards \o arg.community_cards

Evaluated == ret[1]

\* How many of the cards have rank r.
RankCount(r) == Cardinality({i \in 1..Len(Cards) : Cards[i].rank = r})

RanksWithAtLeast(n) == {r \in 2..14 : RankCount(r) >= n}

Max(S) == CHOOSE x \in S : \A y \in S : y <= x

\* No four of a kind, a rank held three times and another held twice.
FullHouseCase ==
  /\ RanksWithAtLeast(4) = {}
  /\ \E t \in RanksWithAtLeast(3) : RanksWithAtLeast(2) \ {t} # {}

\* C23: for 5 to 7 cards with no four of a kind, a rank of count >= 3 and
\* another rank of count >= 2, evaluate returns FullHouse with
\* primary_values = [t, p], t the highest rank of count >= 3 and p the
\* highest other rank of count >= 2.
C23_FullHouseSelection ==
  (ret # <<>> /\ FullHouseCase) =>
    LET t == Max(RanksWithAtLeast(3))
        p == Max(RanksWithAtLeast(2) \ {t})
    IN /\ Evaluated.rank = FullHouse
       /\ Evaluated.primary_values = <<t, p>>

\* C24: evaluate is deterministic and order-independent: the hand a call
\* returned is the only hand evaluate can return for the same cards, in
\* whatever order they come, however they are split between hole and
\* community cards, and whatever the iteration order of the count maps.
C24_EvaluateDeterministic ==
  ret # <<>> =>
    \A other \in EvalInputs :
      Range(other.hole_cards \o other.community_cards) = Range(Cards) =>
        Evaluate(other.hole_cards, other.community_cards) = {Evaluated}

\* The suits held at least five times (at most one among 7 cards).
FlushSuits ==
  {su \in Range(Suit) : Cardinality({i \in 1..Len(Cards) : Cards[i].suit = su}) >= 5}

\* The five highest ranks of suit su among the cards, highest first.
TopFive(su) ==
  Take(Reverse(AscOf({Cards[i].rank : i \in {j \in 1..Len(Cards) : Cards[j].suit = su}})), 5)

\* C25: for 5 to 7 cards with no four of a kind and no full house in which a
\* suit has at least 5 cards, with F the 5 highest ranks of that suit in
\* descending order, evaluate returns RoyalFlush if F = 14,13,12,11,10,
\* StraightFlush if F is five consecutive ranks otherwise, and else Flush
\* with primary_values = F.
C25_FlushFamily ==
  (ret # <<>> /\ RanksWithAtLeast(4) = {} /\ ~FullHouseCase) =>
    \A su \in FlushSuits :
      LET F == TopFive(su)
      IN IF F = <<14, 13, 12, 11, 10>> THEN Evaluated.rank = RoyalFlush
         ELSE IF \A i \in 1..4 : F[i] = F[i + 1] + 1
              THEN Evaluated.rank = StraightFlush
         ELSE /\ Evaluated.rank = Flush
              /\ Evaluated.primary_values = F

\* The ranks among the cards, and the top ranks of the runs of five
\* consecutive ranks among them (Ace counted as 14).
RanksHeld == {Cards[i].rank : i \in 1..Len(Cards)}

RunTops == {h \in 6..14 : \A k \in 0..4 : (h - k) \in RanksHeld}

RunFrom(h) == [i \in 1..5 |-> h + 1 - i]

\* C26: whenever evaluate returns Straight, primary_values is the descending
\* list of the highest run of 5 consecutive ranks among the cards, and it is
\* [5,4,3,2,1] only when the ranks contain A,2,3,4,5 and there is no run with
\* the Ace high; the wheel compares strictly below every other straight.
C26_StraightValues ==
  (ret # <<>> /\ Evaluated.rank = Straight) =>
    /\ IF RunTops # {}
       THEN Evaluated.primary_values = RunFrom(Max(RunTops))
       ELSE /\ Evaluated.primary_values = <<5, 4, 3, 2, 1>>
            /\ {14, 2, 3, 4, 5} \subseteq RanksHeld
    /\ \A h \in 6..14 :
         HandCmp(EvaluatedHand(Straight, <<5, 4, 3, 2, 1>>, <<>>),
                 EvaluatedHand(Straight, RunFrom(h), <<>>)) = -1

\* The category of a five-card hand, by the rules of poker.
CategoryOfFive(five) ==
  LET rs == {c.rank : c \in five}
      held(r) == Cardinality({c \in five : c.rank = r})
      most == Max({held(r) : r \in rs})
      flush == Cardinality({c.suit : c \in five}) = 1
      straight == /\ Cardinality(rs) = 5
                  /\ \/ \E h \in 6..14 : rs = Range(RunFrom(h))
                     \/ rs = {14, 5, 4, 3, 2}
  IN IF flush /\ rs = {14, 13, 12, 11, 10} THEN RoyalFlush
     ELSE IF flush /\ straight THEN StraightFlush
     ELSE IF most = 4 THEN FourOfAKind
     ELSE IF most = 3 /\ Cardinality(rs) = 2 THEN FullHouse
     ELSE IF flush THEN Flush
     ELSE IF straight THEN Straight
     ELSE IF most = 3 THEN ThreeOfAKind
     ELSE IF most = 2 /\ Cardinality(rs) = 3 THEN TwoPair
     ELSE IF most = 2 THEN Pair
     ELSE HighCard

\* The category of the best five-card hand among the cards.
BestCategory ==
  Max({CategoryOfFive(five) : five \in {x \in SUBSET Range(Cards) : Cardinality(x) = 5}})

\* C27: for 5 to 7 distinct cards, the rank evaluate returns is the category
\* of the best 5-card hand that can be chosen from them, as found by
\* enumerating all the 5-card subsets.
C27_CategoryCorrect ==
  ret # <<>> => Evaluated.rank = BestCategory

\* C28: the card text encoding is an exact bijection: from_string of the
\* text of a card gives back that card, and from_string(s) is Some(c) only
\* when s is exactly the text of c; every other token is rejected with None.
C28_CardTextBijection ==
  Len(ret) = 2 =>
    /\ "card" \in DOMAIN arg => ret[2] = <<arg.card>>
    /\ ret[2] # <<>> => ret[1] = CardToString(ret[2][1])

\* C29: every call fully resolves: no state left by start_new_hand or
\* perform_action has stage = Showdown, and a call that enters the showdown
\* (the river street closing, or an all-in run-out) leaves the stage at
\* HandComplete.
C29_ShowdownResolved ==
  /\ stage # "Showdown"
  /\ \A action \in PlayerAction :
       ReachesShowdown(action) =>
         \A r \in Outcomes(action) : r.err = "" /\ r.s.stage = "HandComplete"

\* C29 witness: both seats went all-in, the second AllIn ran the board out
\* to five cards and resolved the showdown in the same call: the hand is
\* complete and the whole pot has been paid out.
C29_Witness ==
  /\ last.op = "perform_action"
  /\ last.action = "AllIn"
  /\ stage = "HandComplete"
  /\ Len(community_cards) = 5
  /\ \A i \in Seats : ~players[i].folded /\ players[i].all_in
  /\ players[0].chips + players[1].chips = NUM_PLAYERS * INITIAL_CHIPS

\* perform_action(action) succeeds during a betting street and leaves at
\* least two non-folded players, all of them all-in.
EveryoneAllIn(action) ==
  /\ stage \in BettingStages
  /\ ActArm(Engine, action).err = ""
  /\ ~Actor.folded /\ ~Actor.all_in /\ pending_action
  /\ Len(GetActivePlayers(Moved(action))) >= 2
  /\ GetBettingPlayers(Moved(action)) = <<>>

\* The flop, turn and river deals still outstanding in a street.
DealsOutstanding(st) ==
  CASE st = "Preflop" -> 3
    [] st = "Flop" -> 2
    [] st = "Turn" -> 1
    [] st = "River" -> 0

\* C30: when a successful action in a betting street leaves at least two
\* non-folded players, every one of them all-in, the same call deals the
\* board out to exactly 5 community cards, with one burn before each of the
\* flop, turn and river deals still outstanding, requests no further action,
\* resolves the showdown and leaves the stage at HandComplete.
C30_AllInRunOut ==
  \A action \in PlayerAction :
    EveryoneAllIn(action) =>
      \A r \in Outcomes(action) :
        /\ r.err = ""
        /\ Len(r.s.community_cards) = 5
        /\ Len(r.s.burned) = Len(burned) + DealsOutstanding(stage)
        /\ ~r.s.pending_action
        /\ r.s.stage = "HandComplete"
        /\ PaidAtShowdown(Moved(action), r.s)

\* C31: current_bet is per street: whenever a call closes a street and opens
\* the next one (the stage becomes Flop, Turn or River and an action is
\* awaited), every player's current_bet is 0, so that current_bet = to_call
\* = 0 for every betting player at the opening of the street.
C31_CurrentBetPerStreet ==
  stage \in BettingStages =>
    \A action \in PlayerAction : \A r \in Outcomes(action) :
      (/\ r.err = ""
       /\ r.s.stage \in {"Flop", "Turn", "River"}
       /\ r.s.stage # stage
       /\ r.s.pending_action) =>
        /\ r.s.to_call = 0
        /\ \A i \in Seats : r.s.players[i].current_bet = 0

\* C32: on the Flop, Turn or River with to_call = 0 and two betting players,
\* when both players check in turn the street closes on the second check
\* (Flop to Turn, Turn to River, River to the resolved showdown), so no hand
\* stays in a street under successive successful checks.
C32_CheckThroughCloses ==
  (/\ stage \in {"Flop", "Turn", "River"}
   /\ pending_action
   /\ to_call = 0
   /\ \A i \in Seats : ~players[i].folded /\ ~players[i].all_in /\ ~players[i].acted) =>
    \A first \in Outcomes("Check") :
      first.err = "" =>
        \A second \in PerformAction(first.s, "Check") :
          second.err = "" => second.s.stage = StreetAfter(stage)

\* C33: in every state where an action is awaited in a betting street,
\* min_bet is BIG_BLIND_CHIPS if to_call = 0 and 2 x to_call otherwise, and
\* max_bet is the smaller of the chips of the seat to act and
\* MAX_BET_DEFAULT x MAX_BET_MULTIPLIER.
C33_BoundsCurrent ==
  (stage \in BettingStages /\ pending_action) =>
    /\ min_bet = IF to_call = 0 THEN BIG_BLIND_CHIPS ELSE 2 * to_call
    /\ max_bet = Min(Actor.chips, MAX_BET_DEFAULT * MAX_BET_MULTIPLIER)

\* The legal-action predicate that goes with an action; AllIn has none.
CanPerform(action) ==
  CASE action = "Check" -> CanCheck(Engine)
    [] action = "Call" -> CanCall(Engine)
    [] action = "Bet" -> CanBet(Engine)
    [] action = "Raise" -> CanRaise(Engine)
    [] action = "Fold" -> CanFold(Engine)

\* C34: in every reachable state where an action is awaited, for each X of
\* Check, Call, Bet, Raise and Fold, perform_action(X) succeeds only if
\* can_check / can_call / can_bet / can_raise / can_fold is true in that
\* state, and get_call_amount() is max(0, to_call - current_bet) of the seat
\* to act.
C34_PredicatesAgree ==
  (stage \in BettingStages /\ pending_action) =>
    /\ \A action \in PlayerAction \ {"AllIn"} :
         (\E r \in Outcomes(action) : r.err = "") => CanPerform(action)
    /\ GetCallAmount(Engine) =
         (IF to_call - Actor.current_bet > 0 THEN to_call - Actor.current_bet ELSE 0)

\* C35: in every reachable state whose stage is Preflop, Flop, Turn or River
\* perform_action accepts at least one action, Fold by the seat to act in
\* particular, so that an open hand can always be driven on; the engine
\* never waits on a seat that is folded or all-in.
C35_NoStuckHand ==
  stage \in BettingStages =>
    /\ \A r \in Outcomes("Fold") : r.err = ""
    /\ ~Actor.folded /\ ~Actor.all_in

RECURSIVE BetsFrom(_, _)
\* The current_bet values of the seats i, i + 1, ... of ps, added up.
BetsFrom(ps, i) ==
  IF i >= NUM_PLAYERS THEN 0 ELSE ps[i].current_bet + BetsFrom(ps, i + 1)

\* C36: during every betting street of a hand started by a successful
\* start_new_hand the pot equals the sum of the players' current_bet values:
\* every chip added to the pot is recorded in one player's current_bet, and
\* no current_bet is reduced while the hand stays in its betting streets.
\* Stated where every start_new_hand succeeds (the later-street
\* exploration); a start_new_hand that fails in post_blinds leaves pot = 0
\* beside the small blind's current_bet.
C36_PotIsSumOfBets ==
  stage \in BettingStages =>
    /\ pot = BetsFrom(players, 0)
    /\ \A action \in PlayerAction : \A r \in Outcomes(action) :
         (r.err = "" /\ r.s.stage \in BettingStages) =>
           \A i \in Seats : r.s.players[i].current_bet >= players[i].current_bet

\* C36 witness: a raise on the river between two betting players, after the
\* blinds and the bets of three earlier streets: the pot is more than the
\* blinds and is the sum of the two current_bet values, which differ by the
\* raise.
C36_Witness ==
  /\ last.op = "perform_action"
  /\ last.action = "Raise"
  /\ stage = "River"
  /\ pot > SMALL_BLIND_CHIPS + BIG_BLIND_CHIPS
  /\ pot = BetsFrom(players, 0)
  /\ players[0].current_bet # players[1].current_bet
  /\ \A i \in Seats : ~players[i].folded /\ ~players[i].all_in
  /\ actions > 0

\* C37: posting a blind counts as having acted: right after a successful
\* start_new_hand both players have acted = TRUE, so a single successful
\* Call by the first seat to act closes the preflop street in that same
\* call: the stage is Flop with 3 community cards, and the big-blind seat
\* was never asked to act before the flop.
C37_BlindsCountAsActed ==
  \A shuffled \in Shuffle :
    LET r == StartNewHand(Engine, shuffled)
    IN r.err = "" =>
         /\ \A i \in Seats : r.s.players[i].acted
         /\ \A c \in PerformAction(r.s, "Call") :
              c.err = "" =>
                /\ c.s.stage = "Flop"
                /\ Len(c.s.community_cards) = 3

\* perform_action(action) gets determine_winner to evaluate hands: the call
\* succeeds and leaves at least two non-folded players, with nobody left to
\* bet (run-out, in whatever stage the call was made) or the river settled.
EvaluatesShowdown(action) ==
  /\ pending_action
  /\ ~Actor.folded /\ ~Actor.all_in
  /\ ActArm(Engine, action).err = ""
  /\ Len(GetActivePlayers(Moved(action))) >= 2
  /\ \/ GetBettingPlayers(Moved(action)) = <<>>
     \/ stage = "River" /\ Settled(Moved(action))

\* C38: whenever determine_winner evaluates hands for a showdown, at the end
\* of the river street, on an all-in run-out or in a call made after the
\* hand is complete, each evaluated player holds exactly 2 hole cards and
\* there are exactly 5 community cards, so the HighCard result of evaluate
\* for fewer than 5 cards never decides a pot.
C38_ShowdownHasSevenCards ==
  \A action \in PlayerAction :
    EvaluatesShowdown(action) =>
      \A r \in Outcomes(action) :
        /\ Len(r.s.community_cards) = 5
        /\ \A i \in Seats :
             ~r.s.players[i].folded => Len(r.s.players[i].hole_cards) = 2

=============================================================================
